---- MODULE Spec2Model ----
(***************************************************************************)
(* The per-job ingestion pipeline of the job-run BigQuery loader:          *)
(* jobLoaderOptions.Run launches one goroutine per enumerated job run,     *)
(* bounded by a weighted semaphore, and chains the uploads through the     *)
(* readyToUpload / doneUploading channels of jobRunLoaderOptions.          *)
(*                                                                         *)
(* allJobsLoaderOptions.Run drives one such pipeline per job from a pool   *)
(* of NumWorkers processJobs goroutines. The workers are interchangeable,  *)
(* so the pool is a set of counters: how many workers are at each          *)
(* position of processJobs.                                                *)
(*                                                                         *)
(* Two further tools of the repository are modelled in specifications of   *)
(* their own: the closure returned by process of ci-operator-yaml-creator  *)
(* with its push ceiling (CreatorSpec) and ensureGroups of                 *)
(* sync-rover-groups with its semaphore (GroupsSpec).                      *)
(*                                                                         *)
(* Run identifiers are natural numbers; 0 is the origin sentinel "0" and   *)
(* also stands for "no job run recorded yet" (a nil lastJobRun).           *)
(***************************************************************************)
EXTENDS Naturals, Sequences, FiniteSets

\* Run identifiers present in the artifact store are 1..MaxRun.
MaxRun == 3
\* ListAllJobs returns between 0 and MaxJobs jobs.
MaxJobs == 21
\* Under fair scheduling ListAllJobs returns at most MaxLiveJobs jobs.
MaxLiveJobs == 10
\* The number of processJobs goroutines allJobsLoaderOptions.Run starts.
NumWorkers == 20
\* The closure returned by process is called MaxCalls times, possibly at once.
MaxCalls == 3
\* --push-ceiling ranges over 0..MaxPushCeiling.
MaxPushCeiling == 2
\* ensureGroups is given MaxClusters clusters, groups named 1..MaxGroups and
\* a maxConcurrency in 1..MaxConcurrency.
MaxClusters == 2
MaxGroups == 3
MaxConcurrency == 2
\* A job is given at most MaxPasses pipeline passes.
MaxPasses == 2
\* numberOfConcurrentReaders ranges over 1..MaxReaders.
MaxReaders == 2
\* Capacity of the buffered errorCh that the lister hands out.
ErrorChCap == 1

Slots == 1..MaxRun
NoJobRun == 0
NoError == [run |-> 0, kind |-> "none", ctx |-> FALSE]

VARIABLES
  numberOfConcurrentReaders, \* jobLoaderOptions.numberOfConcurrentReaders
  lastJobRun,                \* what getLastJobRunWithDataFn returns (0: nil)
  cancelled,                 \* ctx.Done() is closed
  mainPc,                    \* position of jobLoaderOptions.Run
  startingJobRunID,          \* local of jobLoaderOptions.Run
  jobRunProcessingCh,        \* ids still to be received from the lister
  created,                   \* number of jobRunLoaderOptions built so far
  jobRunID,                  \* jobRunLoaderOptions.jobRunID, per slot
  slotPc,                    \* position of each slot goroutine
  fetched,                   \* outcome of readJobRunFromGCS, per slot
  commit,                    \* outcome of the upload step, per slot
  doneUploading,             \* doneUploading channel is closed, per slot
  slotErr,                   \* error a slot goroutine still has to send
  tokens,                    \* weight currently held in concurrentWorkers
  uploaders,                 \* counter of the currentUploaders WaitGroup
  errorCh,                   \* buffered content of errorCh
  errorChClosed,             \* errorCh has been closed
  insertionErrorLock,        \* the collector goroutine holds the mutex
  collectorPc,               \* position of the error collecting goroutine
  insertionErrors,           \* the slice the collector appends to
  result,                    \* errors in the value returned by Run
  sinkLog,                   \* run ids in the order Put was called
  sinkRows,                  \* run ids whose row the sink holds (Put succeeded)
  pass,                      \* which call of Run for this job is modelled
  poolPc,                    \* position of allJobsLoaderOptions.Run
  jobCount,                  \* len(jobs)
  jobChan,                   \* number of jobs left in jobChan
  launched,                  \* processJobs goroutines started so far
  ranging,                   \* workers at "for job := range jobChan"
  running,                   \* workers inside jobLoader.Run
  sending,                   \* workers at "errChan <- err"
  wg,                        \* counter of the WaitGroup
  failedJobs,                \* pipelines that have returned a non-nil error
  errChan,                   \* number of errors buffered in errChan
  errs,                      \* len(errs) of allJobsLoaderOptions.Run
  poolResult,                \* number of errors in the aggregate returned
  pushCeiling,               \* parameter of process
  clonesDone,                \* captured by the closure process returns
  mutex,                     \* the call holding the closure's mutex (0: none)
  callPc,                    \* position of each call of the closure
  clones,                    \* calls of clone made so far
  pushes,                    \* calls of createPr made so far
  refused,                   \* calls turned away at the push ceiling
  maxConcurrency,            \* parameter of ensureGroups
  dryRun,                    \* parameter of ensureGroups
  groupsPc,                  \* position of ensureGroups
  clustersLeft,              \* clusters the range over clients has yet to visit
  wantedHere,                \* groups of groupsToCreate that list this cluster
  toClean,                   \* listed groups the cleanup loop has yet to visit
  toLaunch,                  \* groups the launch loop has yet to start
  sem,                       \* tokens taken from sem
  handling,                  \* goroutines inside handleGroup
  reporting,                 \* goroutines about to append to errs
  groupErrs,                 \* errs of ensureGroups, counted by kind
  deleteCalls,               \* groups client.Delete was called for
  groupsResult               \* number of errors ensureGroups returned

vars == <<numberOfConcurrentReaders, lastJobRun, cancelled, mainPc,
          startingJobRunID, jobRunProcessingCh, created, jobRunID, slotPc,
          fetched, commit, doneUploading, slotErr, tokens, uploaders,
          errorCh, errorChClosed, insertionErrorLock, collectorPc,
          insertionErrors, result, sinkLog, sinkRows, pass, poolPc,
          jobCount, jobChan, launched, ranging, running, sending, wg,
          failedJobs, errChan, errs, poolResult, pushCeiling, clonesDone,
          mutex, callPc, clones, pushes, refused, maxConcurrency, dryRun,
          groupsPc, clustersLeft, wantedHere, toClean, toLaunch, sem,
          handling, reporting, groupErrs, deleteCalls, groupsResult>>

mainVars == <<mainPc, startingJobRunID, jobRunProcessingCh, created, jobRunID,
              result>>
slotVars == <<slotPc, fetched, commit, doneUploading, slotErr, sinkLog,
              sinkRows>>
collectorVars == <<insertionErrorLock, collectorPc, insertionErrors>>
poolVars == <<poolPc, jobCount, jobChan, launched, ranging, running, sending,
              wg, failedJobs, errChan, errs, poolResult>>
creatorVars == <<pushCeiling, clonesDone, mutex, callPc, clones, pushes,
                 refused>>
groupsVars == <<maxConcurrency, dryRun, groupsPc, clustersLeft, wantedHere,
                toClean, toLaunch, sem, handling, reporting, groupErrs,
                deleteCalls, groupsResult>>
\* The state of the other tools.
toolVars == <<creatorVars, groupsVars>>
\* What no step of a pipeline pass changes.
inputVars == <<numberOfConcurrentReaders, lastJobRun, pass, poolVars,
               toolVars>>

----------------------------------------------------------------------------
\* Helpers

\* jobrunaggregatorlib.NextJobRunID: the successor in the identifier space.
NextJobRunID(id) == id + 1

\* The ascending sequence of the elements of a finite set of naturals.
RECURSIVE Ascending(_)
Ascending(S) ==
  IF S = {} THEN <<>>
  ELSE LET m == CHOOSE x \in S : \A y \in S : x <= y
       IN <<m>> \o Ascending(S \ {m})

\* gcsClient.ListJobRunNamesOlderThanFourHours: the runs of the store at or
\* after the start offset, ascending.
ListJobRunNames(start) == Ascending({r \in 1..MaxRun : r >= start})

\* startingJobRunID as computed at the head of jobLoaderOptions.Run.
StartingJobRunIDFromLast(last) == last
StartingJobRunID(last) ==
  IF last = NoJobRun THEN 0 ELSE NextJobRunID(last)

\* The readyToUpload channel of slot i is closed: the first slot is given an
\* already closed channel, every other one its predecessor's doneUploading.
\* A slot wired to wait for its own doneUploading.
ReadyToUploadOwnGate(i) == doneUploading[i]

ReadyToUploadUnchained(i) == TRUE
ReadyToUpload(i) ==
  IF i = 1 THEN TRUE ELSE doneUploading[i - 1]

\* concurrentWorkers.Acquire(ctx, 1) can take a token without blocking.
CanAcquireUnbounded == TRUE
CanAcquire == tokens < numberOfConcurrentReaders

\* defer close(o.doneUploading) in jobRunLoaderOptions.Run; how is the way
\* Run returns: "skip", "fetchErr", "abandon", "ok", "commitErr".
CloseDoneUploadingUnlessSkipped(i, how) ==
  IF how = "skip" THEN doneUploading ELSE [doneUploading EXCEPT ![i] = TRUE]
CloseDoneUploadingOnSuccess(i, how) ==
  IF how = "commitErr" THEN doneUploading
  ELSE [doneUploading EXCEPT ![i] = TRUE]
CloseDoneUploading(i, how) == [doneUploading EXCEPT ![i] = TRUE]

\* defer concurrentWorkers.Release(1) in the slot goroutine.
ReleaseLeaked == tokens
Release == tokens - 1

\* An error record: ctx tells whether the failing call returned after the
\* context was cancelled, so that the error may wrap ctx.Err().
Error(id, kind) == [run |-> id, kind |-> kind, ctx |-> cancelled]

\* The sink. Put records the row of a run; the lookup at the start of a
\* pass returns the latest recorded run of the job, if there is one.
Put(rows, id) == rows \cup {id}

LatestRun(rows) ==
  IF rows = {} THEN NoJobRun
  ELSE CHOOSE r \in rows : \A q \in rows : q <= r

----------------------------------------------------------------------------
\* allJobsLoaderOptions.Run has not been called.
PoolIdle ==
  /\ poolPc = "idle"
  /\ jobCount = 0
  /\ jobChan = 0
  /\ launched = 0
  /\ ranging = 0
  /\ running = 0
  /\ sending = 0
  /\ wg = 0
  /\ failedJobs = 0
  /\ errChan = 0
  /\ errs = 0
  /\ poolResult = 0

Calls == 1..MaxCalls

\* process has not been called.
CreatorIdle ==
  /\ pushCeiling = 0
  /\ clonesDone = 0
  /\ mutex = 0
  /\ callPc = [c \in Calls |-> "idle"]
  /\ clones = 0
  /\ pushes = 0
  /\ refused = 0

NoGroupErrs == [list |-> 0, admins |-> 0, delete |-> 0, handle |-> 0]

\* ensureGroups has not been called.
GroupsIdle ==
  /\ maxConcurrency = 1
  /\ dryRun = FALSE
  /\ groupsPc = "idle"
  /\ clustersLeft = 0
  /\ wantedHere = {}
  /\ toClean = {}
  /\ toLaunch = 0
  /\ sem = 0
  /\ handling = 0
  /\ reporting = 0
  /\ groupErrs = NoGroupErrs
  /\ deleteCalls = {}
  /\ groupsResult = 0

ToolsIdle == CreatorIdle /\ GroupsIdle

Init ==
  /\ numberOfConcurrentReaders \in 1..MaxReaders
  /\ lastJobRun \in 0..MaxRun
  /\ cancelled = FALSE
  /\ mainPc = "start"
  /\ startingJobRunID = 0
  /\ jobRunProcessingCh = <<>>
  /\ created = 0
  /\ jobRunID = [i \in Slots |-> 0]
  /\ slotPc = [i \in Slots |-> "none"]
  /\ fetched = [i \in Slots |-> "none"]
  /\ commit = [i \in Slots |-> "none"]
  /\ doneUploading = [i \in Slots |-> FALSE]
  /\ slotErr = [i \in Slots |-> NoError]
  /\ tokens = 0
  /\ uploaders = 0
  /\ errorCh = <<>>
  /\ errorChClosed = FALSE
  /\ insertionErrorLock = FALSE
  /\ collectorPc = "unstarted"
  /\ insertionErrors = <<>>
  /\ result = <<>>
  /\ sinkLog = <<>>
  /\ sinkRows = IF lastJobRun = NoJobRun THEN {} ELSE {lastJobRun}
  /\ pass = 1
  /\ PoolIdle
  /\ ToolsIdle

----------------------------------------------------------------------------
\* The context is cancelled while the pipeline call is running.
Cancel ==
  /\ ~cancelled
  /\ mainPc # "returned"
  /\ cancelled' = TRUE
  /\ UNCHANGED <<inputVars, mainVars, slotVars, collectorVars, tokens,
                 uploaders, errorCh, errorChClosed>>

----------------------------------------------------------------------------
\* jobLoaderOptions.Run, the calling goroutine

GetLastJobRunOk ==
  /\ mainPc = "start"
  /\ startingJobRunID' = StartingJobRunID(lastJobRun)
  /\ mainPc' = "list"
  /\ UNCHANGED <<inputVars, cancelled, jobRunProcessingCh, created, jobRunID,
                 result, slotVars, collectorVars, tokens, uploaders, errorCh,
                 errorChClosed>>

GetLastJobRunErr ==
  /\ mainPc = "start"
  /\ result' = <<Error(0, "lookup")>>
  /\ mainPc' = "returned"
  /\ UNCHANGED <<inputVars, cancelled, startingJobRunID, jobRunProcessingCh,
                 created, jobRunID, slotVars, collectorVars, tokens,
                 uploaders, errorCh, errorChClosed>>

ListOk ==
  /\ mainPc = "list"
  /\ jobRunProcessingCh' = ListJobRunNames(startingJobRunID)
  /\ collectorPc' = "lock"
  /\ mainPc' = "range"
  /\ UNCHANGED <<inputVars, cancelled, startingJobRunID, created, jobRunID,
                 result, slotVars, insertionErrorLock, insertionErrors,
                 tokens, uploaders, errorCh, errorChClosed>>

\* The enumeration error is recorded and the loop is entered all the same.
ListErrContinues ==
  /\ mainPc = "list"
  /\ result' = <<Error(0, "list")>>
  /\ jobRunProcessingCh' = ListJobRunNames(startingJobRunID)
  /\ collectorPc' = "lock"
  /\ mainPc' = "range"
  /\ UNCHANGED <<inputVars, cancelled, startingJobRunID, created, jobRunID,
                 slotVars, insertionErrorLock, insertionErrors, tokens,
                 uploaders, errorCh, errorChClosed>>

\* ListJobRunNamesOlderThanFourHours returns an error: Run returns it.
ListErr ==
  /\ mainPc = "list"
  /\ result' = <<Error(0, "list")>>
  /\ mainPc' = "returned"
  /\ UNCHANGED <<inputVars, cancelled, startingJobRunID, jobRunProcessingCh,
                 created, jobRunID, slotVars, collectorVars, tokens,
                 uploaders, errorCh, errorChClosed>>

\* for jobRunID := range jobRunProcessingCh: build the next slot.
RangeNext ==
  /\ mainPc = "range"
  /\ jobRunProcessingCh # <<>>
  /\ created' = created + 1
  /\ jobRunID' = [jobRunID EXCEPT ![created + 1] = Head(jobRunProcessingCh)]
  /\ slotPc' = [slotPc EXCEPT ![created + 1] = "created"]
  /\ jobRunProcessingCh' = Tail(jobRunProcessingCh)
  /\ mainPc' = "acquire"
  /\ UNCHANGED <<inputVars, cancelled, startingJobRunID, result, fetched,
                 commit, doneUploading, slotErr, sinkLog, sinkRows, collectorVars,
                 tokens, uploaders, errorCh, errorChClosed>>

\* The channel is closed and drained: leave the loop.
RangeClosed ==
  /\ mainPc = "range"
  /\ jobRunProcessingCh = <<>>
  /\ mainPc' = "wait"
  /\ UNCHANGED <<inputVars, cancelled, startingJobRunID, jobRunProcessingCh,
                 created, jobRunID, result, slotVars, collectorVars, tokens,
                 uploaders, errorCh, errorChClosed>>

\* Acquire succeeds; currentUploaders.Add(1); go func(jrID).
AcquireOk ==
  /\ mainPc = "acquire"
  /\ CanAcquire
  /\ tokens' = tokens + 1
  /\ uploaders' = uploaders + 1
  /\ slotPc' = [slotPc EXCEPT ![created] = "fetch"]
  /\ mainPc' = "range"
  /\ UNCHANGED <<inputVars, cancelled, startingJobRunID, jobRunProcessingCh,
                 created, jobRunID, result, fetched, commit, doneUploading,
                 slotErr, sinkLog, sinkRows, collectorVars, errorCh, errorChClosed>>

\* Acquire returns ctx.Err(): Run returns it at once.
AcquireCtxDone ==
  /\ mainPc = "acquire"
  /\ cancelled
  /\ result' = <<Error(jobRunID[created], "acquire")>>
  /\ mainPc' = "returned"
  /\ UNCHANGED <<inputVars, cancelled, startingJobRunID, jobRunProcessingCh,
                 created, jobRunID, slotVars, collectorVars, tokens,
                 uploaders, errorCh, errorChClosed>>

\* currentUploaders.Wait() returns; close(errorCh).
WaitUploaders ==
  /\ mainPc = "wait"
  /\ uploaders = 0
  /\ errorChClosed' = TRUE
  /\ mainPc' = "lock"
  /\ UNCHANGED <<inputVars, cancelled, startingJobRunID, jobRunProcessingCh,
                 created, jobRunID, result, slotVars, collectorVars, tokens,
                 uploaders, errorCh>>

\* insertionErrorLock.Lock(); return NewAggregate(insertionErrors); the
\* deferred Unlock runs once the aggregate has been built.
LockAndReturn ==
  /\ mainPc = "lock"
  /\ ~insertionErrorLock
  /\ result' = insertionErrors
  /\ mainPc' = "returned"
  /\ UNCHANGED <<inputVars, cancelled, startingJobRunID, jobRunProcessingCh,
                 created, jobRunID, slotVars, collectorVars, tokens,
                 uploaders, errorCh, errorChClosed>>

----------------------------------------------------------------------------
\* The error collecting goroutine of jobLoaderOptions.Run

CollectorLock ==
  /\ collectorPc = "lock"
  /\ ~insertionErrorLock
  /\ insertionErrorLock' = TRUE
  /\ collectorPc' = "recv"
  /\ UNCHANGED <<inputVars, cancelled, mainVars, slotVars, insertionErrors,
                 tokens, uploaders, errorCh, errorChClosed>>

CollectorRecv ==
  /\ collectorPc = "recv"
  /\ errorCh # <<>>
  /\ insertionErrors' = Append(insertionErrors, Head(errorCh))
  /\ errorCh' = Tail(errorCh)
  /\ UNCHANGED <<inputVars, cancelled, mainVars, slotVars, insertionErrorLock,
                 collectorPc, tokens, uploaders, errorChClosed>>

CollectorExit ==
  /\ collectorPc = "recv"
  /\ errorCh = <<>>
  /\ errorChClosed
  /\ insertionErrorLock' = FALSE
  /\ collectorPc' = "exited"
  /\ UNCHANGED <<inputVars, cancelled, mainVars, slotVars, insertionErrors,
                 tokens, uploaders, errorCh, errorChClosed>>

----------------------------------------------------------------------------
\* The slot goroutine: jobRunLoaderOptions.Run and the deferred calls of the
\* closure that runs it.

\* The slot goroutine returns: its deferred calls run, neither of which can
\* block: currentUploaders.Done(), then concurrentWorkers.Release(1).
GoroutineReturns(i) ==
  /\ uploaders' = uploaders - 1
  /\ tokens' = Release
  /\ slotPc' = [slotPc EXCEPT ![i] = "returned"]

\* readJobRunFromGCS returns a job run: go on to the select.
FetchReady(i) ==
  /\ slotPc[i] = "fetch"
  /\ fetched' = [fetched EXCEPT ![i] = "ready"]
  /\ slotPc' = [slotPc EXCEPT ![i] = "gate"]
  /\ UNCHANGED <<inputVars, cancelled, mainVars, commit, doneUploading,
                 slotErr, sinkLog, sinkRows, collectorVars, tokens, uploaders, errorCh,
                 errorChClosed>>

\* A nil job run is not returned on but taken on to the select.
FetchSkipFallsThrough(i) ==
  /\ slotPc[i] = "fetch"
  /\ fetched' = [fetched EXCEPT ![i] = "skip"]
  /\ slotPc' = [slotPc EXCEPT ![i] = "gate"]
  /\ UNCHANGED <<inputVars, cancelled, mainVars, commit, doneUploading,
                 slotErr, sinkLog, sinkRows, collectorVars, tokens, uploaders,
                 errorCh, errorChClosed>>

\* readJobRunFromGCS returns (nil, nil): no prowjob.json (absent) or no
\* completion time (not ready); Run cannot tell the two apart.
FetchSkip(i) ==
  /\ slotPc[i] = "fetch"
  /\ fetched' = [fetched EXCEPT ![i] = "skip"]
  /\ doneUploading' = CloseDoneUploading(i, "skip")
  /\ GoroutineReturns(i)
  /\ UNCHANGED <<inputVars, cancelled, mainVars, commit, slotErr, sinkLog, sinkRows,
                 collectorVars, errorCh, errorChClosed>>

\* readJobRunFromGCS returns an error.
FetchErr(i) ==
  /\ slotPc[i] = "fetch"
  /\ fetched' = [fetched EXCEPT ![i] = "error"]
  /\ slotErr' = [slotErr EXCEPT ![i] = Error(jobRunID[i], "fetch")]
  /\ doneUploading' = CloseDoneUploading(i, "fetchErr")
  /\ slotPc' = [slotPc EXCEPT ![i] = "send"]
  /\ UNCHANGED <<inputVars, cancelled, mainVars, commit, sinkLog, sinkRows,
                 collectorVars, tokens, uploaders, errorCh, errorChClosed>>

\* select: case <-o.readyToUpload.
WaitReadyToUpload(i) ==
  /\ slotPc[i] = "gate"
  /\ ReadyToUpload(i)
  /\ slotPc' = [slotPc EXCEPT ![i] = "upload"]
  /\ UNCHANGED <<inputVars, cancelled, mainVars, fetched, commit,
                 doneUploading, slotErr, sinkLog, sinkRows, collectorVars, tokens,
                 uploaders, errorCh, errorChClosed>>

\* The abandoning slot returns without giving its token back.
WaitCtxDoneKeepsToken(i) ==
  /\ slotPc[i] = "gate"
  /\ cancelled
  /\ commit' = [commit EXCEPT ![i] = "abandoned"]
  /\ doneUploading' = CloseDoneUploading(i, "abandon")
  /\ uploaders' = uploaders - 1
  /\ slotPc' = [slotPc EXCEPT ![i] = "returned"]
  /\ UNCHANGED <<inputVars, cancelled, mainVars, fetched, slotErr, sinkLog,
                 sinkRows, collectorVars, tokens, errorCh, errorChClosed>>

\* select: case <-ctx.Done(): return nil.
WaitCtxDone(i) ==
  /\ slotPc[i] = "gate"
  /\ cancelled
  /\ commit' = [commit EXCEPT ![i] = "abandoned"]
  /\ doneUploading' = CloseDoneUploading(i, "abandon")
  /\ GoroutineReturns(i)
  /\ UNCHANGED <<inputVars, cancelled, mainVars, fetched, slotErr, sinkLog, sinkRows,
                 collectorVars, errorCh, errorChClosed>>

\* uploadJobRun: GetProwJob fails, Put is never called.
UploadProwJobErr(i) ==
  /\ slotPc[i] = "upload"
  /\ commit' = [commit EXCEPT ![i] = "failed"]
  /\ slotErr' = [slotErr EXCEPT ![i] = Error(jobRunID[i], "commit")]
  /\ doneUploading' = CloseDoneUploading(i, "commitErr")
  /\ slotPc' = [slotPc EXCEPT ![i] = "send"]
  /\ UNCHANGED <<inputVars, cancelled, mainVars, fetched, sinkLog, sinkRows,
                 collectorVars, tokens, uploaders, errorCh, errorChClosed>>

\* uploadJobRun: jobRunInserter.Put is called.
UploadPut(i) ==
  /\ slotPc[i] = "upload"
  /\ sinkLog' = Append(sinkLog, jobRunID[i])
  /\ slotPc' = [slotPc EXCEPT ![i] = "put"]
  /\ UNCHANGED <<inputVars, sinkRows, cancelled, mainVars, fetched, commit,
                 doneUploading, slotErr, collectorVars, tokens, uploaders,
                 errorCh, errorChClosed>>

\* uploadJobRun: Put and uploadContent both succeed.
UploadOk(i) ==
  /\ slotPc[i] = "put"
  /\ commit' = [commit EXCEPT ![i] = "ok"]
  /\ sinkRows' = Put(sinkRows, jobRunID[i])
  /\ doneUploading' = CloseDoneUploading(i, "ok")
  /\ GoroutineReturns(i)
  /\ UNCHANGED <<inputVars, cancelled, mainVars, fetched, slotErr, sinkLog,
                 collectorVars, errorCh, errorChClosed>>

\* uploadContent fails and the row Put recorded is taken back.
UploadContentErrRollsBack(i) ==
  /\ slotPc[i] = "put"
  /\ commit' = [commit EXCEPT ![i] = "contentFailed"]
  /\ slotErr' = [slotErr EXCEPT ![i] = Error(jobRunID[i], "commit")]
  /\ doneUploading' = CloseDoneUploading(i, "commitErr")
  /\ slotPc' = [slotPc EXCEPT ![i] = "send"]
  /\ UNCHANGED <<inputVars, cancelled, mainVars, fetched, sinkLog, sinkRows,
                 collectorVars, tokens, uploaders, errorCh, errorChClosed>>

\* uploadJobRun: Put succeeds, then uploadContent returns an error; the row
\* Put recorded stays in the sink.
UploadContentErr(i) ==
  /\ slotPc[i] = "put"
  /\ commit' = [commit EXCEPT ![i] = "contentFailed"]
  /\ sinkRows' = Put(sinkRows, jobRunID[i])
  /\ slotErr' = [slotErr EXCEPT ![i] = Error(jobRunID[i], "commit")]
  /\ doneUploading' = CloseDoneUploading(i, "commitErr")
  /\ slotPc' = [slotPc EXCEPT ![i] = "send"]
  /\ UNCHANGED <<inputVars, cancelled, mainVars, fetched, sinkLog,
                 collectorVars, tokens, uploaders, errorCh, errorChClosed>>

\* uploadJobRun: Put returns an error, no row is recorded.
UploadErr(i) ==
  /\ slotPc[i] = "put"
  /\ commit' = [commit EXCEPT ![i] = "failed"]
  /\ slotErr' = [slotErr EXCEPT ![i] = Error(jobRunID[i], "commit")]
  /\ doneUploading' = CloseDoneUploading(i, "commitErr")
  /\ slotPc' = [slotPc EXCEPT ![i] = "send"]
  /\ UNCHANGED <<inputVars, cancelled, mainVars, fetched, sinkLog, sinkRows,
                 collectorVars, tokens, uploaders, errorCh, errorChClosed>>

\* errorCh <- err
SendError(i) ==
  /\ slotPc[i] = "send"
  /\ Len(errorCh) < ErrorChCap
  /\ errorCh' = Append(errorCh, slotErr[i])
  /\ slotErr' = [slotErr EXCEPT ![i] = NoError]
  /\ GoroutineReturns(i)
  /\ UNCHANGED <<inputVars, cancelled, mainVars, fetched, commit,
                 doneUploading, sinkLog, sinkRows, collectorVars, errorChClosed>>

----------------------------------------------------------------------------
MainStep ==
  \/ GetLastJobRunOk
  \/ GetLastJobRunErr
  \/ ListOk
  \/ ListErr
  \/ RangeNext
  \/ RangeClosed
  \/ AcquireOk
  \/ WaitUploaders
  \/ LockAndReturn

CollectorStep ==
  \/ CollectorLock
  \/ CollectorRecv
  \/ CollectorExit

SlotStep(i) ==
  \/ FetchReady(i)
  \/ FetchSkip(i)
  \/ FetchErr(i)
  \/ WaitReadyToUpload(i)
  \/ UploadProwJobErr(i)
  \/ UploadPut(i)
  \/ UploadOk(i)
  \/ UploadContentErr(i)
  \/ UploadErr(i)
  \/ SendError(i)

\* What the pipeline does while the context stays live.
NextLive ==
  \/ MainStep
  \/ CollectorStep
  \/ \E i \in Slots : SlotStep(i)

Next ==
  \/ NextLive
  \/ Cancel
  \/ AcquireCtxDone
  \/ \E i \in Slots : WaitCtxDone(i)

Spec == Init /\ [][Next]_vars

\* The pipeline without cancellation, every goroutine scheduled fairly.
LiveSpec ==
  /\ Init
  /\ [][NextLive]_vars
  /\ WF_vars(MainStep)
  /\ WF_vars(CollectorStep)
  /\ \A i \in Slots : WF_vars(SlotStep(i))

----------------------------------------------------------------------------
\* Successive passes over the same job

\* The pass has returned and none of its goroutines is left.
PassOver ==
  /\ mainPc = "returned"
  /\ collectorPc \in {"unstarted", "exited"}
  /\ \A i \in Slots : slotPc[i] \in {"none", "returned"}

\* A lookup that finds no recorded run, whatever the sink holds.
LookupForgotten(rows) == NoJobRun

\* getLastJobRunWithDataFn: what the lookup of a new pass finds in the sink.
Lookup(rows) == LatestRun(rows)

\* A new jobLoaderOptions.Run call for the same job: fresh channels, slots,
\* semaphore and error list; only the rows of the sink are carried over
\* (sinkLog starts again: it is the order of the Put calls of one pass).
NextPass ==
  /\ PassOver
  /\ pass < MaxPasses
  /\ pass' = pass + 1
  /\ lastJobRun' = Lookup(sinkRows)
  /\ mainPc' = "start"
  /\ startingJobRunID' = 0
  /\ jobRunProcessingCh' = <<>>
  /\ created' = 0
  /\ jobRunID' = [i \in Slots |-> 0]
  /\ slotPc' = [i \in Slots |-> "none"]
  /\ fetched' = [i \in Slots |-> "none"]
  /\ commit' = [i \in Slots |-> "none"]
  /\ doneUploading' = [i \in Slots |-> FALSE]
  /\ slotErr' = [i \in Slots |-> NoError]
  /\ errorCh' = <<>>
  /\ errorChClosed' = FALSE
  /\ insertionErrorLock' = FALSE
  /\ collectorPc' = "unstarted"
  /\ insertionErrors' = <<>>
  /\ result' = <<>>
  /\ sinkLog' = <<>>
  /\ UNCHANGED <<numberOfConcurrentReaders, cancelled, tokens, uploaders,
                 sinkRows, poolVars, toolVars>>

NextPasses ==
  \/ NextLive
  \/ NextPass

\* Passes of one job one after the other, the context staying live.
PassSpec == Init /\ [][NextPasses]_vars

----------------------------------------------------------------------------
\* allJobsLoaderOptions.Run and its pool of processJobs goroutines. Each
\* job's pipeline (jobLoaderOptions.Run, modelled above) appears here only
\* as a call that is entered and that returns nil or an error.

pipelineVars == <<numberOfConcurrentReaders, lastJobRun, pass, mainVars,
                  slotVars, collectorVars, tokens, uploaders, errorCh,
                  errorChClosed, toolVars>>

\* allJobsLoaderOptions.Run is called with a live context; ListAllJobs will
\* return jobCount jobs if it succeeds.
PoolInit ==
  /\ numberOfConcurrentReaders = 1
  /\ lastJobRun = NoJobRun
  /\ cancelled = FALSE
  /\ mainPc = "start"
  /\ startingJobRunID = 0
  /\ jobRunProcessingCh = <<>>
  /\ created = 0
  /\ jobRunID = [i \in Slots |-> 0]
  /\ slotPc = [i \in Slots |-> "none"]
  /\ fetched = [i \in Slots |-> "none"]
  /\ commit = [i \in Slots |-> "none"]
  /\ doneUploading = [i \in Slots |-> FALSE]
  /\ slotErr = [i \in Slots |-> NoError]
  /\ tokens = 0
  /\ uploaders = 0
  /\ errorCh = <<>>
  /\ errorChClosed = FALSE
  /\ insertionErrorLock = FALSE
  /\ collectorPc = "unstarted"
  /\ insertionErrors = <<>>
  /\ result = <<>>
  /\ sinkLog = <<>>
  /\ sinkRows = {}
  /\ pass = 1
  /\ poolPc = "list"
  /\ jobCount \in 0..MaxJobs
  /\ jobChan = 0
  /\ launched = 0
  /\ ranging = 0
  /\ running = 0
  /\ sending = 0
  /\ wg = 0
  /\ failedJobs = 0
  /\ errChan = 0
  /\ errs = 0
  /\ poolResult = 0
  /\ ToolsIdle

\* The context is cancelled while allJobsLoaderOptions.Run is running.
PoolCancel ==
  /\ ~cancelled
  /\ poolPc \notin {"idle", "returned", "returnedListErr"}
  /\ cancelled' = TRUE
  /\ UNCHANGED <<pipelineVars, poolVars>>

\* ListAllJobs fails: Run returns the wrapped error.
PoolListErr ==
  /\ poolPc = "list"
  /\ poolResult' = 1
  /\ poolPc' = "returnedListErr"
  /\ UNCHANGED <<pipelineVars, cancelled, jobCount, jobChan, launched, ranging,
                 running, sending, wg, failedJobs, errChan, errs>>

\* ListAllJobs succeeds: jobChan is made, filled with every job and closed;
\* errChan is made with room for jobCount errors.
PoolListOk ==
  /\ poolPc = "list"
  /\ jobChan' = jobCount
  /\ poolPc' = "launch"
  /\ UNCHANGED <<pipelineVars, cancelled, jobCount, launched, ranging, running,
                 sending, wg, failedJobs, errChan, errs, poolResult>>

\* One turn of the launching loop: wg.Add(1); go o.processJobs(...).
LaunchWorker ==
  /\ poolPc = "launch"
  /\ launched < NumWorkers
  /\ launched' = launched + 1
  /\ wg' = wg + 1
  /\ ranging' = ranging + 1
  /\ UNCHANGED <<pipelineVars, cancelled, poolPc, jobCount, jobChan, running,
                 sending, failedJobs, errChan, errs, poolResult>>

\* Run goes on without waiting for the workers.
WaitReturnsAtOnce == TRUE

\* wg.Wait() returns once the counter is zero.
WaitReturns == wg = 0

\* The loop is over; wg.Wait() returns; close(errChan).
WaitWorkers ==
  /\ poolPc = "launch"
  /\ launched = NumWorkers
  /\ WaitReturns
  /\ poolPc' = "drain"
  /\ UNCHANGED <<pipelineVars, cancelled, jobCount, jobChan, launched, ranging,
                 running, sending, wg, failedJobs, errChan, errs, poolResult>>

\* for e := range errChan: one error is taken and appended to errs.
Drain ==
  /\ poolPc = "drain"
  /\ errChan > 0
  /\ errChan' = errChan - 1
  /\ errs' = errs + 1
  /\ UNCHANGED <<pipelineVars, cancelled, poolPc, jobCount, jobChan, launched,
                 ranging, running, sending, wg, failedJobs, poolResult>>

\* errChan is closed and empty: return utilerrors.NewAggregate(errs).
DrainDone ==
  /\ poolPc = "drain"
  /\ errChan = 0
  /\ poolResult' = errs
  /\ poolPc' = "returned"
  /\ UNCHANGED <<pipelineVars, cancelled, jobCount, jobChan, launched, ranging,
                 running, sending, wg, failedJobs, errChan, errs>>

\* processJobs: a job is pulled and shouldCollectedDataForJobFn rejects it.
WorkerSkipsJob ==
  /\ ranging > 0
  /\ jobChan > 0
  /\ jobChan' = jobChan - 1
  /\ UNCHANGED <<pipelineVars, cancelled, poolPc, jobCount, launched, ranging,
                 running, sending, wg, failedJobs, errChan, errs, poolResult>>

\* The pipeline is started in a goroutine of its own and the worker goes
\* back to the queue.
WorkerStartsJobAsync ==
  /\ ranging > 0
  /\ jobChan > 0
  /\ jobChan' = jobChan - 1
  /\ running' = running + 1
  /\ UNCHANGED <<pipelineVars, cancelled, poolPc, jobCount, launched, ranging,
                 sending, wg, failedJobs, errChan, errs, poolResult>>

\* processJobs: a job is pulled and the worker calls jobLoader.Run for it.
WorkerStartsJob ==
  /\ ranging > 0
  /\ jobChan > 0
  /\ jobChan' = jobChan - 1
  /\ ranging' = ranging - 1
  /\ running' = running + 1
  /\ UNCHANGED <<pipelineVars, cancelled, poolPc, jobCount, launched, sending,
                 wg, failedJobs, errChan, errs, poolResult>>

\* jobLoader.Run returns nil: back to the queue.
PipelineReturnsNil ==
  /\ running > 0
  /\ running' = running - 1
  /\ ranging' = ranging + 1
  /\ UNCHANGED <<pipelineVars, cancelled, poolPc, jobCount, jobChan, launched,
                 sending, wg, failedJobs, errChan, errs, poolResult>>

\* The error of the pipeline is logged and not sent on errChan.
PipelineErrSwallowed ==
  /\ running > 0
  /\ running' = running - 1
  /\ failedJobs' = failedJobs + 1
  /\ ranging' = ranging + 1
  /\ UNCHANGED <<pipelineVars, cancelled, poolPc, jobCount, jobChan, launched,
                 sending, wg, errChan, errs, poolResult>>

\* The worker returns on the first pipeline error (its deferred wg.Done()
\* runs).
PipelineErrStopsWorker ==
  /\ running > 0
  /\ running' = running - 1
  /\ failedJobs' = failedJobs + 1
  /\ wg' = wg - 1
  /\ UNCHANGED <<pipelineVars, cancelled, poolPc, jobCount, jobChan, launched,
                 ranging, sending, errChan, errs, poolResult>>

\* jobLoader.Run returns a non-nil error: the worker goes on to send it.
PipelineReturnsErr ==
  /\ running > 0
  /\ running' = running - 1
  /\ failedJobs' = failedJobs + 1
  /\ sending' = sending + 1
  /\ UNCHANGED <<pipelineVars, cancelled, poolPc, jobCount, jobChan, launched,
                 ranging, wg, errChan, errs, poolResult>>

\* errChan <- err, which needs room in the buffer; back to the queue.
WorkerSendsErr ==
  /\ sending > 0
  /\ errChan < jobCount
  /\ sending' = sending - 1
  /\ errChan' = errChan + 1
  /\ ranging' = ranging + 1
  /\ UNCHANGED <<pipelineVars, cancelled, poolPc, jobCount, jobChan, launched,
                 running, wg, failedJobs, errs, poolResult>>

\* The closed jobChan is empty: processJobs returns, wg.Done() runs.
WorkerExits ==
  /\ ranging > 0
  /\ jobChan = 0
  /\ ranging' = ranging - 1
  /\ wg' = wg - 1
  /\ UNCHANGED <<pipelineVars, cancelled, poolPc, jobCount, jobChan, launched,
                 running, sending, failedJobs, errChan, errs, poolResult>>

PoolMainStep ==
  \/ PoolListErr
  \/ PoolListOk
  \/ LaunchWorker
  \/ WaitWorkers
  \/ Drain
  \/ DrainDone

\* The steps by which a worker gets on. Whether a job is skipped and whether
\* its pipeline fails is up to the job, so neither WorkerSkipsJob nor
\* PipelineReturnsErr is among them.
WorkerProgress ==
  \/ WorkerStartsJob
  \/ PipelineReturnsNil
  \/ WorkerSendsErr
  \/ WorkerExits

PoolNext ==
  \/ PoolMainStep
  \/ WorkerProgress
  \/ WorkerSkipsJob
  \/ PipelineReturnsErr
  \/ PoolCancel

PoolSpec == PoolInit /\ [][PoolNext]_vars

PoolLiveInit ==
  /\ PoolInit
  /\ jobCount <= MaxLiveJobs

\* The pool with its goroutines scheduled fairly and every pipeline call
\* returning.
PoolLiveSpec ==
  /\ PoolLiveInit
  /\ [][PoolNext]_vars
  /\ WF_vars(PoolMainStep)
  /\ WF_vars(WorkerProgress)

----------------------------------------------------------------------------
\* ci-operator-yaml-creator: the closure returned by process. Every call is
\* for another ci-operator config; the calls may overlap.

\* The job pipeline and the worker pool at rest.
LoaderIdle ==
  /\ numberOfConcurrentReaders = 1
  /\ lastJobRun = NoJobRun
  /\ cancelled = FALSE
  /\ mainPc = "start"
  /\ startingJobRunID = 0
  /\ jobRunProcessingCh = <<>>
  /\ created = 0
  /\ jobRunID = [i \in Slots |-> 0]
  /\ slotPc = [i \in Slots |-> "none"]
  /\ fetched = [i \in Slots |-> "none"]
  /\ commit = [i \in Slots |-> "none"]
  /\ doneUploading = [i \in Slots |-> FALSE]
  /\ slotErr = [i \in Slots |-> NoError]
  /\ tokens = 0
  /\ uploaders = 0
  /\ errorCh = <<>>
  /\ errorChClosed = FALSE
  /\ insertionErrorLock = FALSE
  /\ collectorPc = "unstarted"
  /\ insertionErrors = <<>>
  /\ result = <<>>
  /\ sinkLog = <<>>
  /\ sinkRows = {}
  /\ pass = 1
  /\ PoolIdle

loaderVars == <<numberOfConcurrentReaders, lastJobRun, pass, cancelled,
                mainVars, slotVars, collectorVars, tokens, uploaders, errorCh,
                errorChClosed, poolVars>>

\* process is called with some push ceiling; clonesDone starts at zero.
CreatorInit ==
  /\ LoaderIdle
  /\ GroupsIdle
  /\ pushCeiling \in 0..MaxPushCeiling
  /\ clonesDone = 0
  /\ mutex = 0
  /\ callPc = [c \in Calls |-> "idle"]
  /\ clones = 0
  /\ pushes = 0
  /\ refused = 0

\* The call returns before the ceiling is looked at: the repository is
\* filtered out, has no build root to move, its .ci-operator.yaml cannot be
\* read or is already as expected.
CallReturnsEarly(c) ==
  /\ callPc[c] = "idle"
  /\ callPc' = [callPc EXCEPT ![c] = "done"]
  /\ UNCHANGED <<loaderVars, groupsVars, pushCeiling, clonesDone, mutex, clones, pushes,
                 refused>>

\* .ci-operator.yaml needs updating: the call goes on to mutex.Lock().
CallNeedsUpdate(c) ==
  /\ callPc[c] = "idle"
  /\ callPc' = [callPc EXCEPT ![c] = "lock"]
  /\ UNCHANGED <<loaderVars, groupsVars, pushCeiling, clonesDone, mutex, clones, pushes,
                 refused>>

\* mutex.Lock()
MutexLock(c) ==
  /\ callPc[c] = "lock"
  /\ mutex = 0
  /\ mutex' = c
  /\ callPc' = [callPc EXCEPT ![c] = "locked"]
  /\ UNCHANGED <<loaderVars, groupsVars, pushCeiling, clonesDone, clones, pushes, refused>>

\* A ceiling that lets one clone too many through.
CeilingReachedLate == pushCeiling > 0 /\ clonesDone > pushCeiling

\* pushCeiling > 0 && clonesDone >= pushCeiling
CeilingReached == pushCeiling > 0 /\ clonesDone >= pushCeiling

\* "Reached push ceiling, not cloning repo": mutex.Unlock(); return nil.
RefuseAtCeiling(c) ==
  /\ callPc[c] = "locked"
  /\ CeilingReached
  /\ mutex' = 0
  /\ refused' = refused + 1
  /\ callPc' = [callPc EXCEPT ![c] = "done"]
  /\ UNCHANGED <<loaderVars, groupsVars, pushCeiling, clonesDone, clones, pushes>>

\* clonesDone++; mutex.Unlock()
CountClone(c) ==
  /\ callPc[c] = "locked"
  /\ ~CeilingReached
  /\ clonesDone' = clonesDone + 1
  /\ mutex' = 0
  /\ callPc' = [callPc EXCEPT ![c] = "clone"]
  /\ UNCHANGED <<loaderVars, groupsVars, pushCeiling, clones, pushes, refused>>

\* clone(org, repo) returns an error, which the call returns.
CloneErr(c) ==
  /\ callPc[c] = "clone"
  /\ clones' = clones + 1
  /\ callPc' = [callPc EXCEPT ![c] = "done"]
  /\ UNCHANGED <<loaderVars, groupsVars, pushCeiling, clonesDone, mutex, pushes, refused>>

\* clone(org, repo) returns the repository.
CloneOk(c) ==
  /\ callPc[c] = "clone"
  /\ clones' = clones + 1
  /\ callPc' = [callPc EXCEPT ![c] = "cloned"]
  /\ UNCHANGED <<loaderVars, groupsVars, pushCeiling, clonesDone, mutex, pushes, refused>>

\* Checkout or the write of .ci-operator.yaml fails: no push.
CheckoutOrWriteErr(c) ==
  /\ callPc[c] = "cloned"
  /\ callPc' = [callPc EXCEPT ![c] = "done"]
  /\ UNCHANGED <<loaderVars, groupsVars, pushCeiling, clonesDone, mutex, clones, pushes,
                 refused>>

\* return createPr(...): the push and, with --create-prs, the pull request.
CreatePr(c) ==
  /\ callPc[c] = "cloned"
  /\ pushes' = pushes + 1
  /\ callPc' = [callPc EXCEPT ![c] = "done"]
  /\ UNCHANGED <<loaderVars, groupsVars, pushCeiling, clonesDone, mutex, clones, refused>>

CallStep(c) ==
  \/ CallReturnsEarly(c)
  \/ CallNeedsUpdate(c)
  \/ MutexLock(c)
  \/ RefuseAtCeiling(c)
  \/ CountClone(c)
  \/ CloneErr(c)
  \/ CloneOk(c)
  \/ CheckoutOrWriteErr(c)
  \/ CreatePr(c)

CreatorNext == \E c \in Calls : CallStep(c)

CreatorSpec == CreatorInit /\ [][CreatorNext]_vars

----------------------------------------------------------------------------
\* sync-rover-groups: ensureGroups. The clusters are visited one after the
\* other; for each, the stale groups are cleaned up and one goroutine per
\* wanted group runs handleGroup, bounded by a semaphore made for the
\* cluster. The goroutines of a cluster are interchangeable and are counted.

GroupNames == 1..MaxGroups

\* api.CIAdminsGroupName
CIAdminsGroupName == 1

\* ensureGroups is called with a live context.
GroupsInit ==
  /\ LoaderIdle
  /\ CreatorIdle
  /\ maxConcurrency \in 1..MaxConcurrency
  /\ dryRun \in BOOLEAN
  /\ groupsPc = "cluster"
  /\ clustersLeft = MaxClusters
  /\ wantedHere = {}
  /\ toClean = {}
  /\ toLaunch = 0
  /\ sem = 0
  /\ handling = 0
  /\ reporting = 0
  /\ groupErrs = NoGroupErrs
  /\ deleteCalls = {}
  /\ groupsResult = 0

otherVars == <<numberOfConcurrentReaders, lastJobRun, pass, mainVars, slotVars,
               collectorVars, tokens, uploaders, errorCh, errorChClosed,
               poolVars, creatorVars>>

AddGroupErr(kind) == [groupErrs EXCEPT ![kind] = @ + 1]

TotalGroupErrs ==
  groupErrs.list + groupErrs.admins + groupErrs.delete + groupErrs.handle

\* The context is cancelled while ensureGroups is running.
GroupsCancel ==
  /\ ~cancelled
  /\ groupsPc \notin {"idle", "returned", "fatal"}
  /\ cancelled' = TRUE
  /\ UNCHANGED <<otherVars, groupsVars>>

\* The next cluster of the range over clients: client.List succeeds and
\* returns some of the groups labelled by the tool.
ListGroupsOk ==
  /\ groupsPc = "cluster"
  /\ clustersLeft > 0
  /\ clustersLeft' = clustersLeft - 1
  /\ \E wanted \in SUBSET GroupNames : wantedHere' = wanted
  /\ \E items \in SUBSET GroupNames : toClean' = items
  /\ deleteCalls' = {}
  /\ groupsPc' = "cleanup"
  /\ UNCHANGED <<otherVars, cancelled, maxConcurrency, dryRun, toLaunch, sem,
                 handling, reporting, groupErrs, groupsResult>>

\* The next cluster: client.List fails; the error is recorded and the
\* cleanup is skipped.
ListGroupsErr ==
  /\ groupsPc = "cluster"
  /\ clustersLeft > 0
  /\ clustersLeft' = clustersLeft - 1
  /\ \E wanted \in SUBSET GroupNames : wantedHere' = wanted
  /\ toClean' = {}
  /\ deleteCalls' = {}
  /\ groupErrs' = AddGroupErr("list")
  /\ groupsPc' = "cleanup"
  /\ UNCHANGED <<otherVars, cancelled, maxConcurrency, dryRun, toLaunch, sem,
                 handling, reporting, groupsResult>>

\* groupsToCreate does not hold the group for this cluster.
ShouldDelete(g) == g \notin wantedHere

\* A cleanup that treats ci-admins as any other group.
IsProtectedNever(g) == FALSE

\* group.Name == api.CIAdminsGroupName
IsProtected(g) == g = CIAdminsGroupName

\* A listed group that groupsToCreate wants on this cluster is left alone.
CleanupKeep(g) ==
  /\ groupsPc = "cleanup"
  /\ g \in toClean
  /\ ~ShouldDelete(g)
  /\ toClean' = toClean \ {g}
  /\ UNCHANGED <<otherVars, cancelled, maxConcurrency, dryRun, groupsPc,
                 clustersLeft, wantedHere, toLaunch, sem, handling, reporting,
                 groupErrs, deleteCalls, groupsResult>>

\* "should never happen": the stale group is ci-admins; an error is
\* recorded and the loop continues.
CleanupAdmins(g) ==
  /\ groupsPc = "cleanup"
  /\ g \in toClean
  /\ ShouldDelete(g)
  /\ IsProtected(g)
  /\ groupErrs' = AddGroupErr("admins")
  /\ toClean' = toClean \ {g}
  /\ UNCHANGED <<otherVars, cancelled, maxConcurrency, dryRun, groupsPc,
                 clustersLeft, wantedHere, toLaunch, sem, handling, reporting,
                 deleteCalls, groupsResult>>

\* A stale group under dryRun: logged only.
CleanupDryRun(g) ==
  /\ groupsPc = "cleanup"
  /\ g \in toClean
  /\ ShouldDelete(g)
  /\ ~IsProtected(g)
  /\ dryRun
  /\ toClean' = toClean \ {g}
  /\ UNCHANGED <<otherVars, cancelled, maxConcurrency, dryRun, groupsPc,
                 clustersLeft, wantedHere, toLaunch, sem, handling, reporting,
                 groupErrs, deleteCalls, groupsResult>>

\* client.Delete for a stale group succeeds or reports NotFound.
CleanupDelete(g) ==
  /\ groupsPc = "cleanup"
  /\ g \in toClean
  /\ ShouldDelete(g)
  /\ ~IsProtected(g)
  /\ ~dryRun
  /\ deleteCalls' = deleteCalls \cup {g}
  /\ toClean' = toClean \ {g}
  /\ UNCHANGED <<otherVars, cancelled, maxConcurrency, dryRun, groupsPc,
                 clustersLeft, wantedHere, toLaunch, sem, handling, reporting,
                 groupErrs, groupsResult>>

\* client.Delete for a stale group fails: the error is recorded.
CleanupDeleteErr(g) ==
  /\ groupsPc = "cleanup"
  /\ g \in toClean
  /\ ShouldDelete(g)
  /\ ~IsProtected(g)
  /\ ~dryRun
  /\ deleteCalls' = deleteCalls \cup {g}
  /\ groupErrs' = AddGroupErr("delete")
  /\ toClean' = toClean \ {g}
  /\ UNCHANGED <<otherVars, cancelled, maxConcurrency, dryRun, groupsPc,
                 clustersLeft, wantedHere, toLaunch, sem, handling, reporting,
                 groupsResult>>

\* The cleanup is over: errLock and sem are made and the range over
\* groupsToCreate begins; it skips the groups not meant for this cluster.
CleanupDone ==
  /\ groupsPc = "cleanup"
  /\ toClean = {}
  /\ toLaunch' = Cardinality(wantedHere)
  /\ sem' = 0
  /\ groupsPc' = "launch"
  /\ UNCHANGED <<otherVars, cancelled, maxConcurrency, dryRun, clustersLeft,
                 wantedHere, toClean, handling, reporting, groupErrs,
                 deleteCalls, groupsResult>>

\* A semaphore that hands out a token whatever is taken.
SemHasRoomAlways == TRUE

\* sem.Acquire(ctx, 1) can succeed.
SemHasRoom == sem < maxConcurrency

\* sem.Acquire(ctx, 1) succeeds and the goroutine is started.
LaunchHandleGroup ==
  /\ groupsPc = "launch"
  /\ toLaunch > 0
  /\ SemHasRoom
  /\ sem' = sem + 1
  /\ handling' = handling + 1
  /\ toLaunch' = toLaunch - 1
  /\ UNCHANGED <<otherVars, cancelled, maxConcurrency, dryRun, groupsPc,
                 clustersLeft, wantedHere, toClean, reporting, groupErrs,
                 deleteCalls, groupsResult>>

\* sem.Acquire(ctx, 1) fails: ensureGroups returns that error alone.
LaunchAcquireErr ==
  /\ groupsPc = "launch"
  /\ toLaunch > 0
  /\ cancelled
  /\ groupsResult' = 1
  /\ groupsPc' = "returned"
  /\ UNCHANGED <<otherVars, cancelled, maxConcurrency, dryRun, clustersLeft,
                 wantedHere, toClean, toLaunch, sem, handling, reporting,
                 groupErrs, deleteCalls>>

\* sem.Acquire(ctx, maxConcurrency) succeeds: every token is back.
WaitAllWorkers ==
  /\ groupsPc = "launch"
  /\ toLaunch = 0
  /\ sem = 0
  /\ groupsPc' = "cluster"
  /\ UNCHANGED <<otherVars, cancelled, maxConcurrency, dryRun, clustersLeft,
                 wantedHere, toClean, toLaunch, sem, handling, reporting,
                 groupErrs, deleteCalls, groupsResult>>

\* sem.Acquire(ctx, maxConcurrency) fails: logrus Fatal ends the process.
WaitAllWorkersFatal ==
  /\ groupsPc = "launch"
  /\ toLaunch = 0
  /\ cancelled
  /\ groupsPc' = "fatal"
  /\ UNCHANGED <<otherVars, cancelled, maxConcurrency, dryRun, clustersLeft,
                 wantedHere, toClean, toLaunch, sem, handling, reporting,
                 groupErrs, deleteCalls, groupsResult>>

\* Every cluster was visited: return kerrors.NewAggregate(errs).
ReturnAggregate ==
  /\ groupsPc = "cluster"
  /\ clustersLeft = 0
  /\ groupsResult' = TotalGroupErrs
  /\ groupsPc' = "returned"
  /\ UNCHANGED <<otherVars, cancelled, maxConcurrency, dryRun, clustersLeft,
                 wantedHere, toClean, toLaunch, sem, handling, reporting,
                 groupErrs, deleteCalls>>

\* handleGroup returns nil; the deferred sem.Release(1) runs.
HandleGroupOk ==
  /\ groupsPc # "fatal"
  /\ handling > 0
  /\ handling' = handling - 1
  /\ sem' = sem - 1
  /\ UNCHANGED <<otherVars, cancelled, maxConcurrency, dryRun, groupsPc,
                 clustersLeft, wantedHere, toClean, toLaunch, reporting,
                 groupErrs, deleteCalls, groupsResult>>

\* handleGroup returns an error (invalid group, failed upsert).
HandleGroupErr ==
  /\ groupsPc # "fatal"
  /\ handling > 0
  /\ handling' = handling - 1
  /\ reporting' = reporting + 1
  /\ UNCHANGED <<otherVars, cancelled, maxConcurrency, dryRun, groupsPc,
                 clustersLeft, wantedHere, toClean, toLaunch, sem, groupErrs,
                 deleteCalls, groupsResult>>

\* errLock.Lock(); errs = append(errs, err); errLock.Unlock(); then the
\* deferred sem.Release(1).
RecordGroupErr ==
  /\ groupsPc # "fatal"
  /\ reporting > 0
  /\ reporting' = reporting - 1
  /\ groupErrs' = AddGroupErr("handle")
  /\ sem' = sem - 1
  /\ UNCHANGED <<otherVars, cancelled, maxConcurrency, dryRun, groupsPc,
                 clustersLeft, wantedHere, toClean, toLaunch, handling,
                 deleteCalls, groupsResult>>

CleanupStep(g) ==
  \/ CleanupKeep(g)
  \/ CleanupAdmins(g)
  \/ CleanupDryRun(g)
  \/ CleanupDelete(g)
  \/ CleanupDeleteErr(g)

GroupsMainStep ==
  \/ ListGroupsOk
  \/ ListGroupsErr
  \/ \E g \in GroupNames : CleanupStep(g)
  \/ CleanupDone
  \/ LaunchHandleGroup
  \/ WaitAllWorkers
  \/ ReturnAggregate

GroupsWorkerStep ==
  \/ HandleGroupOk
  \/ HandleGroupErr
  \/ RecordGroupErr

GroupsNext ==
  \/ GroupsMainStep
  \/ GroupsWorkerStep
  \/ GroupsCancel
  \/ LaunchAcquireErr
  \/ WaitAllWorkersFatal

GroupsSpec == GroupsInit /\ [][GroupsNext]_vars

----------------------------------------------------------------------------
\* Vocabulary of the properties

\* The enumeration call succeeded and the range loop was entered.
Listed == collectorPc # "unstarted"

\* The slot goroutine of slot i has been started.
Launched(i) == slotPc[i] \notin {"none", "created"}

\* Slot i has entered uploadJobRun (its commit attempt has started).
Attempted(i) ==
  slotPc[i] \in {"upload", "put"} \/ commit[i] \in {"ok", "failed", "contentFailed"}

\* Every slot goroutine that was started has returned.
AllSlotsReturned == \A i \in Slots : slotPc[i] \in {"none", "created", "returned"}

Fetching == {i \in Slots : slotPc[i] = "fetch"}

FailedCommits == {i \in Slots : commit[i] \in {"failed", "contentFailed"}}

\* The returned error is, or contains, an error that may wrap ctx.Err().
HasCancellationError == \E j \in 1..Len(result) : result[j].ctx

----------------------------------------------------------------------------
\* C1: within one job's pipeline the sink writes occur in strictly
\* increasing run-identifier order, whatever the fetch outcomes and the
\* interleaving of the slot goroutines are.
C1_WritesInRunOrder ==
  \A a, b \in 1..Len(sinkLog) : a < b => sinkLog[a] < sinkLog[b]

\* C2: while every fetch has returned ready, every commit has succeeded and
\* the context is live, the sink has seen the runs of the first slots, in
\* enumeration order; once the pipeline has returned it has seen exactly the
\* whole enumeration r1..rk, in that order.
C2_AllReadyWritesInEnumerationOrder ==
  ( /\ ~cancelled
    /\ \A i \in Slots : fetched[i] \in {"none", "ready"}
    /\ \A i \in Slots : commit[i] \in {"none", "ok"} )
  => /\ Len(sinkLog) <= created
     /\ \A j \in 1..Len(sinkLog) : sinkLog[j] = jobRunID[j]
     /\ (mainPc = "returned" /\ Listed)
          => sinkLog = ListJobRunNames(startingJobRunID)

C2_Witness ==
  /\ mainPc = "returned"
  /\ ~cancelled
  /\ \A i \in Slots : commit[i] = "ok"
  /\ Len(sinkLog) = MaxRun

\* C3: with the context live, once run ri has been skipped (not ready or
\* absent) and r(i+1) has been fetched ready, the commit attempt of r(i+1)
\* eventually starts: a skipped run never blocks the later runs.
C3_SkippedRunDoesNotBlock ==
  \A i \in 1..(MaxRun - 1) :
    (fetched[i] = "skip" /\ fetched[i + 1] = "ready") ~> Attempted(i + 1)

C3_Witness ==
  \E i \in 1..(MaxRun - 1) :
    /\ fetched[i] = "skip"
    /\ fetched[i + 1] = "ready"
    /\ slotPc[i + 1] = "put"

\* C4: with the context live, once the commit of ri has failed and r(i+1)
\* has been fetched ready, the commit attempt of r(i+1) eventually starts:
\* slot i closes its completion gate although its write failed.
C4_FailedCommitDoesNotBlock ==
  \A i \in 1..(MaxRun - 1) :
    (i \in FailedCommits /\ fetched[i + 1] = "ready") ~> Attempted(i + 1)

C4_Witness ==
  \E i \in 1..(MaxRun - 1) :
    /\ commit[i] = "failed"
    /\ doneUploading[i]
    /\ slotPc[i + 1] = "put"

\* C5: when the enumeration succeeded, every fetch was ready and the context
\* was not cancelled, the aggregate returned by the pipeline holds as many
\* errors as there are runs whose commit failed.
C5_ErrorCountEqualsFailedCommits ==
  ( /\ mainPc = "returned"
    /\ Listed
    /\ ~cancelled
    /\ \A i \in 1..created : fetched[i] = "ready" )
  => Len(result) = Cardinality(FailedCommits)

\* C6: at no instant are more than numberOfConcurrentReaders fetches
\* (readJobRunFromGCS) in flight within one job's pipeline.
C6_AtMostNFetches == Cardinality(Fetching) <= numberOfConcurrentReaders

C6_Witness ==
  /\ numberOfConcurrentReaders = MaxReaders
  /\ Cardinality(Fetching) = numberOfConcurrentReaders
  /\ mainPc = "acquire"

\* C7: with the context live, the job pipeline terminates for every
\* enumeration (longer than the token count included), every token count and
\* every mix of fetch and commit outcomes.
C7_PipelineTerminates == <>(mainPc = "returned")

C7_Witness ==
  /\ mainPc = "returned"
  /\ Listed
  /\ created = MaxRun
  /\ created > numberOfConcurrentReaders
  /\ FailedCommits # {}
  /\ \E i \in Slots : fetched[i] = "skip"

\* C8: when the context is cancelled while the pipeline is running, here
\* while a launched slot waits at its predecessor gate so that the slot
\* abandons, the error the pipeline call returns is or contains a
\* cancellation error.
C8_CancelledRunReturnsCancellationError ==
  ( /\ mainPc = "returned"
    /\ cancelled
    /\ \E i \in Slots : commit[i] = "abandoned" )
  => HasCancellationError

\* C9: once the pipeline call has returned and every slot goroutine has
\* finished, the completion gate of every slot the pipeline created is closed.
C9_NoGateLeftUnclosed ==
  (mainPc = "returned" /\ AllSlotsReturned)
  => \A i \in 1..created : doneUploading[i]

\* C10: the enumeration is seeded with the successor of the latest recorded
\* run, or with the origin sentinel 0 when there is none, and no run at or
\* before the latest recorded run is ever fetched or written.
C10_ResumesAfterCheckpoint ==
  /\ (mainPc = "list" \/ Listed)
       => startingJobRunID = IF lastJobRun = NoJobRun THEN 0 ELSE lastJobRun + 1
  /\ \A i \in 1..created : jobRunID[i] > lastJobRun
  /\ \A j \in 1..Len(sinkLog) : sinkLog[j] > lastJobRun

C10_Witness ==
  /\ lastJobRun = 1
  /\ mainPc = "returned"
  /\ Len(sinkLog) = MaxRun - 1

----------------------------------------------------------------------------
\* Checkpoints across passes

\* The run the pass started from, as a set of rows.
CheckpointRow == IF lastJobRun = NoJobRun THEN {} ELSE {lastJobRun}

\* Runs of this pass whose commit attempt has completed, with either outcome.
CompletedAttempts ==
  {jobRunID[i] : i \in {j \in Slots : commit[j] \in {"ok", "failed", "contentFailed"}}}

\* Runs of this pass whose Put succeeded.
RecordedRuns ==
  {jobRunID[i] : i \in {j \in Slots : commit[j] \in {"ok", "contentFailed"}}}

----------------------------------------------------------------------------
\* Failures at the start of a pipeline

\* Run has returned the error of the checkpoint lookup or of the enumeration.
StartFailure ==
  /\ Len(result) = 1
  /\ result[1].kind \in {"lookup", "list"}

----------------------------------------------------------------------------
\* Per-run errors

\* The errors about run id among the errors of a sequence.
ErrorsFor(errors, id) == {j \in 1..Len(errors) : errors[j].run = id}

\* The slot goroutine of slot i has sent an error on errorCh and returned.
SentError(i) ==
  /\ slotPc[i] = "returned"
  /\ fetched[i] = "error" \/ i \in FailedCommits

\* C18: no per-run error is dropped: once Run has returned, every error a
\* slot goroutine has sent on errorCh is in the aggregate Run returned.
C18_NoSentErrorDropped ==
  mainPc = "returned" =>
    \A i \in Slots : SentError(i) => ErrorsFor(result, jobRunID[i]) # {}

\* C19: a run whose fetch returns not-ready or absent is never written to
\* the sink and no error about it is held, sent, collected or returned.
C19_SkippedRunWritesNothingReportsNothing ==
  \A i \in Slots :
    fetched[i] = "skip" =>
      /\ commit[i] = "none"
      /\ \A k \in 1..Len(sinkLog) : sinkLog[k] # jobRunID[i]
      /\ jobRunID[i] \notin sinkRows \ CheckpointRow
      /\ slotErr[i] = NoError
      /\ ErrorsFor(errorCh, jobRunID[i]) = {}
      /\ ErrorsFor(insertionErrors, jobRunID[i]) = {}
      /\ ErrorsFor(result, jobRunID[i]) = {}

\* Run has returned the error of another run, a run was skipped and a later
\* run was written.
C19_Witness ==
  /\ mainPc = "returned"
  /\ result # <<>>
  /\ \E i \in Slots :
       /\ fetched[i] = "skip"
       /\ slotPc[i] = "returned"
       /\ \E k \in 1..Len(sinkLog) : sinkLog[k] > jobRunID[i]

\* C20: a run whose fetch returns an error is never written to the sink and,
\* once Run has returned, the aggregate holds exactly one error about it.
C20_FetchErrorReportedOnce ==
  \A i \in Slots :
    fetched[i] = "error" =>
      /\ \A k \in 1..Len(sinkLog) : sinkLog[k] # jobRunID[i]
      /\ (mainPc = "returned" /\ slotPc[i] = "returned") =>
           Cardinality(ErrorsFor(result, jobRunID[i])) = 1

----------------------------------------------------------------------------
\* The worker pool

\* processJobs goroutines that have returned.
Exited == launched - wg

\* Every job was queued and pulled, and was skipped or had its pipeline
\* return and its error, if any, sent.
AllJobsProcessed ==
  /\ poolPc \in {"launch", "drain", "returned"}
  /\ jobChan = 0
  /\ running = 0
  /\ sending = 0

\* C11: allJobsLoaderOptions.Run gets past wg.Wait(), and so returns its
\* aggregate, only when all NumWorkers processJobs goroutines have returned:
\* the queue is drained and no pipeline call or send is under way.
C11_ReturnsAfterAllWorkersFinished ==
  poolPc \in {"drain", "returned"} =>
    /\ launched = NumWorkers
    /\ Exited = NumWorkers
    /\ jobChan = 0
    /\ ranging = 0
    /\ running = 0
    /\ sending = 0

\* Run has returned after more jobs than workers, some of which failed.
C11_Witness ==
  /\ poolPc = "returned"
  /\ jobCount > NumWorkers
  /\ failedJobs > 0

\* C12: every pipeline error is held by exactly one of a sending worker,
\* errChan and errs, and the aggregate Run returns has as many entries as
\* pipelines returned an error: none for a job that succeeded or was
\* skipped, and it is nil exactly when no pipeline failed.
C12_OneEntryPerFailedJob ==
  /\ failedJobs = sending + errChan + errs
  /\ poolPc = "returned" =>
       /\ poolResult = failedJobs
       /\ (poolResult = 0) <=> (failedJobs = 0)

\* Run has returned an aggregate for some failed jobs while other jobs
\* succeeded or were skipped.
C12_Witness ==
  /\ poolPc = "returned"
  /\ failedJobs > 1
  /\ failedJobs < jobCount
  /\ poolResult = failedJobs

\* C13: while the context is live no worker returns before the queue is
\* empty, whatever number of pipelines have failed, and every queued job is
\* eventually pulled and either skipped or run to its return.
C13_FailureNeverStopsWorker ==
  /\ [](~cancelled => (Exited > 0 => jobChan = 0))
  /\ (poolPc = "launch") ~> AllJobsProcessed

\* A pipeline has failed, its worker is back at the queue and jobs are left.
C13_Witness ==
  /\ ~cancelled
  /\ failedJobs > 0
  /\ sending = 0
  /\ running = 0
  /\ ranging = NumWorkers
  /\ jobChan > 0

\* C15: at most NumWorkers pipelines run at a time, however many jobs are
\* queued.
C15_AtMostNumWorkersPipelines == running <= NumWorkers

\* Every worker is inside a pipeline and a job is still queued.
C15_Witness ==
  /\ running = NumWorkers
  /\ jobChan > 0

----------------------------------------------------------------------------
\* Tokens, gates and slots of one pipeline

\* Slot goroutines that have been started and have not returned.
Unreturned == {i \in Slots : Launched(i) /\ slotPc[i] # "returned"}

\* Slots inside uploadJobRun.
Uploading == {i \in Slots : slotPc[i] \in {"upload", "put"}}

\* Slots waiting at the select on readyToUpload whose predecessor has not
\* closed its doneUploading.
GateBlocked == {i \in Slots : slotPc[i] = "gate" /\ ~ReadyToUpload(i)}

\* C23: a token is held only during the fetch (and the report of a fetch
\* error): no slot that waits at its gate or is inside uploadJobRun holds one,
\* so every token taken belongs to a slot that is fetching or sending.
C23_TokenHeldOnlyDuringFetch ==
  tokens <= Cardinality({i \in Slots : slotPc[i] \in {"fetch", "send"}})

\* C24: whenever the doneUploading of slot i is closed, every earlier slot
\* has finished its commit attempt, that is has closed its own doneUploading.
C24_ClosedGateMeansEarlierSlotsDone ==
  \A i \in Slots :
    doneUploading[i] => \A j \in 1..(i - 1) : doneUploading[j]

\* C25: at any instant at most one slot of the job is inside uploadJobRun.
C25_AtMostOneSlotUploading == Cardinality(Uploading) <= 1

\* C26: once the context is cancelled, no slot that is still at its select
\* goes on to uploadJobRun.
C26_NoUploadStartsAfterCancel ==
  [][cancelled =>
       \A i \in Slots : slotPc[i] = "gate" => slotPc'[i] # "upload"]_vars

\* C27: once jobLoaderOptions.Run has returned, every slot goroutine it
\* started has returned.
C27_ReturnsAfterAllSlots == mainPc = "returned" => Unreturned = {}

\* C28: the tokens taken are exactly one per slot goroutine that was started
\* and has not returned, whichever way the others returned; so none is taken
\* once all have returned.
C28_TokenPerUnreturnedSlot ==
  /\ tokens = Cardinality(Unreturned)
  /\ tokens <= numberOfConcurrentReaders
  /\ uploaders = tokens

\* Slots have returned by a skip, a fetch error, a commit error, an
\* abandoned wait and a successful write, and no token is taken.
C28_Witness ==
  /\ Unreturned = {}
  /\ tokens = 0
  /\ \E i \in Slots : commit[i] = "abandoned"
  /\ \E i \in Slots : fetched[i] \in {"skip", "error"}
  /\ \E i \in Slots : commit[i] \in {"ok", "failed", "contentFailed"}

\* Slot j can take a step, or waits only for the collector to make room in
\* errorCh.
CanProgress(j) ==
  \/ slotPc[j] \in {"fetch", "upload", "put"}
  \/ slotPc[j] = "gate" /\ ReadyToUpload(j)
  \/ slotPc[j] = "send" /\
       (Len(errorCh) < ErrorChCap \/ collectorPc \in {"lock", "recv"})

\* C29: the started slots are a prefix of the enumeration, in ascending run
\* order, and whenever the pipeline waits for a token or a slot waits for
\* its predecessor, the lowest slot that has not returned has been started
\* (it holds a token), its predecessor gate is closed and it can make
\* progress.
C29_SomeLaunchedSlotCanProgress ==
  /\ \A i \in Slots : Launched(i) => i <= created
  /\ \A i \in 1..created : \A j \in 1..(i - 1) :
       Launched(j) /\ jobRunID[j] < jobRunID[i]
  /\ ((mainPc = "acquire" /\ ~CanAcquire) \/ GateBlocked # {}) =>
       \E j \in Unreturned :
         /\ \A k \in 1..created : slotPc[k] # "returned" => j <= k
         /\ ReadyToUpload(j)
         /\ CanProgress(j)

\* The pipeline waits for a token while a slot waits for its predecessor.
C29_Witness ==
  /\ mainPc = "acquire"
  /\ ~CanAcquire
  /\ GateBlocked # {}

----------------------------------------------------------------------------
\* The push ceiling of ci-operator-yaml-creator

\* C21: with a positive push ceiling no more than pushCeiling repositories
\* are ever cloned, and so pushed to, however the calls of the closure
\* interleave; with a ceiling of 0 no call is turned away.
C21_ClonesWithinPushCeiling ==
  /\ pushes <= clones
  /\ clones <= clonesDone
  /\ pushCeiling > 0 => clonesDone <= pushCeiling
  /\ pushCeiling = 0 => refused = 0

\* The ceiling has been reached by clones made and a further call was
\* turned away while another call was still under way.
C21_Witness ==
  /\ pushCeiling > 1
  /\ clones = pushCeiling
  /\ refused > 0
  /\ \E c \in Calls : callPc[c] = "cloned"

----------------------------------------------------------------------------
\* ensureGroups

\* handleGroup goroutines that have been started and have not returned.
InFlight == handling + reporting

\* C22: at any instant at most maxConcurrency handleGroup goroutines are in
\* flight, whatever the number of groups and of clusters; each of them
\* holds one token of sem.
C22_AtMostMaxConcurrencyInFlight ==
  /\ InFlight <= maxConcurrency
  /\ groupsPc = "launch" => sem = InFlight

\* Every token is taken while groups are still waiting to be started.
C22_Witness ==
  /\ InFlight = maxConcurrency
  /\ groupsPc = "launch"
  /\ toLaunch > 0
  /\ clustersLeft < MaxClusters - 1

\* C30: the cleanup of stale groups never calls Delete for ci-admins;
\* when ci-admins is listed on a cluster where groupsToCreate does not want
\* it, the cleanup records one error and calls nothing.
C30_NeverDeletesCIAdmins ==
  /\ [](CIAdminsGroupName \notin deleteCalls)
  /\ [][( /\ groupsPc = "cleanup"
          /\ CIAdminsGroupName \in toClean
          /\ CIAdminsGroupName \notin toClean'
          /\ ShouldDelete(CIAdminsGroupName) ) =>
            ( /\ groupErrs' = AddGroupErr("admins")
              /\ deleteCalls' = deleteCalls )]_vars

\* A stale ci-admins was met, and recorded, on a cluster where another
\* stale group was deleted.
C30_Witness ==
  /\ ~dryRun
  /\ groupErrs.admins > 0
  /\ groupErrs.delete = 0
  /\ deleteCalls # {}
  /\ CIAdminsGroupName \notin wantedHere
  /\ groupsPc = "launch"

\* C31: ensureGroups is a barrier per cluster: it starts the next cluster,
\* and returns, only after every handleGroup goroutine started for the
\* current cluster has finished, so the value it returns holds every error
\* those goroutines record.
C31_ReturnsAfterEveryHandleGroup ==
  /\ groupsPc \in {"cluster", "cleanup"} => InFlight = 0
  /\ groupsPc = "returned" =>
       ( /\ InFlight = 0
         /\ groupErrs.handle > 0 => groupsResult = TotalGroupErrs )
====
